---- MODULE Spec2Model ----
(***************************************************************************)
(* util/dis2intel.py of cic-nes-core: the converter that turns the textual *)
(* disassembly listing nescic-dis.txt into the 1024-byte image             *)
(* cicbytes.bin.  A line is a sequence of one-character strings; Python's  *)
(* 0-based index k is index k+1 here.                                      *)
(***************************************************************************)
EXTENDS Integers, Sequences, FiniteSets, TLC

VARIABLES cicdis, output, pc, lineno, fault, cicbytes, ra, remapped

vars == <<cicdis, output, pc, lineno, fault, cicbytes, ra, remapped>>

\* Number of entries of the output buffer: bytearray(1024).
BufSize == 1024

\* Longest input file, in lines, of the files drawn from LineSet.
MaxLines == 2

----------------------------------------------------------------------------
(* Text helpers: str(line, "utf-8"), slicing, int(s, 16).                  *)

\* A byte that is no valid UTF-8 (0xFF never occurs in UTF-8).
InvalidByte == "<FF>"

\* str(line, "utf-8") succeeds iff every byte decodes; on the ASCII bytes of
\* the model the decoded string has the same characters.
Utf8Ok(line) == \A k \in 1..Len(line) : line[k] # InvalidByte

\* s[a:b] of Python for 0 <= a <= b: clamps to the string, never faults.
Slice(s, a, b) ==
    LET hi == IF b < Len(s) THEN b ELSE Len(s)
    IN  IF a >= hi THEN <<>> ELSE SubSeq(s, a + 1, hi)

\* The characters str.strip() and int() treat as white space.
Whitespace == {" ", "\n", "\t", "\r"}

RECURSIVE LStrip(_)
LStrip(s) ==
    IF s # <<>> /\ Head(s) \in Whitespace THEN LStrip(Tail(s)) ELSE s

RECURSIVE RStrip(_)
RStrip(s) ==
    IF s # <<>> /\ s[Len(s)] \in Whitespace
    THEN RStrip(SubSeq(s, 1, Len(s) - 1)) ELSE s

\* Value of one base-16 digit, -1 for any other character.
HexDigitValue(c) ==
    CASE c = "0" -> 0  [] c = "1" -> 1  [] c = "2" -> 2  [] c = "3" -> 3
      [] c = "4" -> 4  [] c = "5" -> 5  [] c = "6" -> 6  [] c = "7" -> 7
      [] c = "8" -> 8  [] c = "9" -> 9
      [] c \in {"A", "a"} -> 10  [] c \in {"B", "b"} -> 11
      [] c \in {"C", "c"} -> 12  [] c \in {"D", "d"} -> 13
      [] c \in {"E", "e"} -> 14  [] c \in {"F", "f"} -> 15
      [] OTHER -> -1

\* The digit part of an int() literal: digits, single underscores only
\* between digits.  The value, or -1 when the text is no such literal.
RECURSIVE ParseDigits(_, _, _)
ParseDigits(s, acc, afterDigit) ==
    IF s = <<>> THEN (IF afterDigit THEN acc ELSE -1)
    ELSE IF Head(s) = "_"
         THEN (IF afterDigit THEN ParseDigits(Tail(s), acc, FALSE) ELSE -1)
         ELSE IF HexDigitValue(Head(s)) < 0 THEN -1
              ELSE ParseDigits(Tail(s), acc * 16 + HexDigitValue(Head(s)), TRUE)

\* int(s, 16): white space stripped at both ends, an optional sign, an
\* optional 0x/0X prefix (one underscore may follow it), then the digits.
\* ok = FALSE is Python's ValueError.
IntBase16(s) ==
    LET t      == RStrip(LStrip(s))
        signed == t # <<>> /\ Head(t) \in {"+", "-"}
        u      == IF signed THEN Tail(t) ELSE t
        pre    == Len(u) >= 2 /\ u[1] = "0" /\ u[2] \in {"x", "X"}
        v      == IF pre THEN SubSeq(u, 3, Len(u)) ELSE u
        w      == IF pre /\ v # <<>> /\ Head(v) = "_" THEN Tail(v) ELSE v
        m      == ParseDigits(w, 0, FALSE)
    IN  IF m < 0 THEN [ok |-> FALSE, val |-> 0]
        ELSE [ok |-> TRUE, val |-> IF signed /\ Head(t) = "-" THEN 0 - m ELSE m]

----------------------------------------------------------------------------
(* Integer helpers: Python's & on unbounded two's-complement integers.     *)

RECURSIVE AndNat(_, _)
AndNat(a, b) ==
    IF a = 0 \/ b = 0 THEN 0
    ELSE (a % 2) * (b % 2) + 2 * AndNat(a \div 2, b \div 2)

\* a & mask for a mask in 0..4095: only the low 12 bits of a matter, and
\* a % 4096 is the low 12 bits of a in two's complement, a negative included.
BitAnd(a, mask) == AndNat(a % 4096, mask)

\* a >> 1
ShiftRight1(a) == a \div 2

----------------------------------------------------------------------------
(* The decoder: one iteration of the loop over cicdis.                     *)

\* The result of decoding that names no exception.
NoFault == [exc |-> "none", at |-> "none"]

\* Variant of IsDataLine that forgets the test of line_str[3].
IsDataLineNoColon(line_str) == Len(line_str) > 3

\* len(line_str) > 3 and line_str[3] == ":": the line holds data.
IsDataLine(line_str) == Len(line_str) > 3 /\ line_str[4] = ":"

\* Variant of HasSecondPair that looks one column too far, at line_str[9].
HasSecondPairAt9(line_str) == Len(line_str) >= 10 /\ line_str[10] # " "

\* line_str[8] != " " (the caller has checked that index 8 exists).
HasSecondPair(line_str) == line_str[9] # " "

\* Variant of Remap without the 0x40 offset of the upper half.
RemapLowMask(address) ==
    LET add_high == BitAnd(address, 3968)
        low      == BitAnd(address, 127)
    IN  ShiftRight1(low) + add_high

\* Variant of Remap with the mask 0xF00 instead of 0xF80 for add_high.
RemapWideHigh(address) ==
    LET add_high == BitAnd(address, 3840)
        low      == BitAnd(address, 127)
    IN  IF BitAnd(low, 3) = 0 \/ BitAnd(low, 3) = 3
        THEN ShiftRight1(low) + 64 + add_high
        ELSE ShiftRight1(low) + add_high

\* Variant of Remap with the two branches exchanged.
RemapSwapHalves(address) ==
    LET add_high == BitAnd(address, 3968)
        low      == BitAnd(address, 127)
    IN  IF BitAnd(low, 3) = 0 \/ BitAnd(low, 3) = 3
        THEN ShiftRight1(low) + add_high
        ELSE ShiftRight1(low) + 64 + add_high

\* The address of the second byte of a line, from the address of the first.
Remap(address) ==
    LET add_high == BitAnd(address, 3968)
        low      == BitAnd(address, 127)
    IN  IF BitAnd(low, 3) = 0 \/ BitAnd(low, 3) = 3
        THEN ShiftRight1(low) + 64 + add_high
        ELSE ShiftRight1(low) + add_high

\* Variant of SetItem that never overwrites an entry already set.
SetItemKeepFirst(buf, index, value) ==
    LET k == IF index < 0 THEN index + BufSize ELSE index
    IN  IF value < 0 \/ value > 255 THEN [exc |-> "ValueError", buf |-> buf]
        ELSE IF k < 0 \/ k >= BufSize THEN [exc |-> "IndexError", buf |-> buf]
        ELSE [exc |-> "none",
              buf |-> IF buf[k] = 0 THEN [buf EXCEPT ![k] = value] ELSE buf]

\* Variant of SetItem that extends the buffer instead of raising IndexError.
SetItemGrow(buf, index, value) ==
    LET k == IF index < 0 THEN index + BufSize ELSE index
    IN  IF value < 0 \/ value > 255 THEN [exc |-> "ValueError", buf |-> buf]
        ELSE IF k < 0 THEN [exc |-> "IndexError", buf |-> buf]
        ELSE [exc |-> "none",
              buf |-> [j \in DOMAIN buf \cup {k} |->
                          IF j = k THEN value ELSE buf[j]]]

\* output[index] = value on a bytearray: a negative index counts from the
\* end, a value outside 0..255 is a ValueError, an index outside the buffer
\* an IndexError; the buffer keeps its length.
SetItem(buf, index, value) ==
    LET k == IF index < 0 THEN index + BufSize ELSE index
    IN  IF value < 0 \/ value > 255 THEN [exc |-> "ValueError", buf |-> buf]
        ELSE IF k < 0 \/ k >= BufSize THEN [exc |-> "IndexError", buf |-> buf]
        ELSE [exc |-> "none", buf |-> [buf EXCEPT ![k] = value]]

\* The statements of the branch taken when line_str[8] is not a space.
SecondPair(line_str, address, out) ==
    LET data == IntBase16(Slice(line_str, 8, 10))
    IN  IF ~data.ok THEN [output |-> out, exc |-> "ValueError", at |-> "data2"]
        ELSE LET st == SetItem(out, Remap(address), data.val)
             IN  [output |-> st.buf, exc |-> st.exc,
                  at |-> IF st.exc = "none" THEN "none" ELSE "store2"]

\* Variant of DataLine that reads line_str[8] before the primary write.
DataLineIndexFirst(line_str, out) ==
    LET address == IntBase16(Slice(line_str, 0, 3))
        data    == IntBase16(Slice(line_str, 5, 7))
    IN  IF ~address.ok THEN [output |-> out, exc |-> "ValueError", at |-> "address"]
        ELSE IF ~data.ok THEN [output |-> out, exc |-> "ValueError", at |-> "data"]
        ELSE IF Len(line_str) < 9
        THEN [output |-> out, exc |-> "IndexError", at |-> "index8"]
        ELSE LET st == SetItem(out, address.val, data.val)
             IN  IF st.exc # "none"
                 THEN [output |-> out, exc |-> st.exc, at |-> "store"]
                 ELSE IF HasSecondPair(line_str)
                 THEN SecondPair(line_str, address.val, st.buf)
                 ELSE [output |-> st.buf, exc |-> "none", at |-> "none"]

\* The statements of a data line, in the order the code runs them; the first
\* exception ends the line with the buffer as the earlier statements left it.
DataLine(line_str, out) ==
    LET address == IntBase16(Slice(line_str, 0, 3))
        data    == IntBase16(Slice(line_str, 5, 7))
    IN  IF ~address.ok THEN [output |-> out, exc |-> "ValueError", at |-> "address"]
        ELSE IF ~data.ok THEN [output |-> out, exc |-> "ValueError", at |-> "data"]
        ELSE LET st == SetItem(out, address.val, data.val)
             IN  IF st.exc # "none"
                 THEN [output |-> out, exc |-> st.exc, at |-> "store"]
                 ELSE IF Len(line_str) < 9
                 THEN [output |-> st.buf, exc |-> "IndexError", at |-> "index8"]
                 ELSE IF HasSecondPair(line_str)
                 THEN SecondPair(line_str, address.val, st.buf)
                 ELSE [output |-> st.buf, exc |-> "none", at |-> "none"]

\* The body of the loop for one line of the file.
LoopBody(line, out) ==
    IF ~Utf8Ok(line)
    THEN [output |-> out, exc |-> "UnicodeDecodeError", at |-> "str"]
    ELSE IF IsDataLine(line) THEN DataLine(line, out)
         ELSE [output |-> out, exc |-> "none", at |-> "none"]

----------------------------------------------------------------------------
(* The input files.                                                        *)

HexChar(n) ==
    <<"0", "1", "2", "3", "4", "5", "6", "7",
      "8", "9", "A", "B", "C", "D", "E", "F">>[n + 1]

\* n as three and as two upper-case hexadecimal digits.
Hex3(n) == <<HexChar(n \div 256), HexChar((n \div 16) % 16), HexChar(n % 16)>>
Hex2(n) == <<HexChar((n \div 16) % 16), HexChar(n % 16)>>

\* The data bytes of the listing line of address a: two different values.
ByteOf(a) == a % 256
Byte2Of(a) == 255 - (a % 256)

\* "AAA: DD DD\n" and "AAA: DD  nop\n" for the address a.
PairLine(a) ==
    Hex3(a) \o <<":", " ">> \o Hex2(ByteOf(a)) \o <<" ">> \o Hex2(Byte2Of(a))
            \o <<"\n">>
SingleLine(a) ==
    Hex3(a) \o <<":", " ">> \o Hex2(ByteOf(a)) \o <<" ", " ", "n", "o", "p", "\n">>

\* Lines that are skipped, lines that decode, and lines that fault at each
\* statement of the loop body.
LineSet ==
    { <<"\n">>,
      <<"1", "2", "3">>,
      <<"1", "2", "3", " ", "4", "F", " ", "7", "A", "\n">>,
      <<";", " ", "r", "o", "m", ":", " ", "G", "G", "\n">>,
      <<"1", "2", InvalidByte, "\n">>,
      <<"1", "2", "3", ":", " ", "4", "F", " ", "7", "A", "\n">>,
      <<"1", "5", "1", ":", " ", "1", "1", " ", "2", "2", "\n">>,
      <<"0", "7", "F", ":", " ", "4", "F", " ", "7", "A", "\n">>,
      <<"3", "f", "f", ":", " ", "f", "e", " ", "0", "1", "\n">>,
      <<"1", "2", "3", ":", " ", "7", "A", " ", " ", "n", "o", "p", "\n">>,
      <<"1", "5", "1", ":", " ", "4", "F", " ", " ", "\n">>,
      <<"1", "2", "3", ":", " ", "3", "3", " ", "7">>,
      <<" ", "1", "2", ":", " ", "+", "5", " ", "0", "x", "\n">>,
      <<"-", "0", "1", ":", " ", "4", "F", " ", " ", "\n">>,
      <<"-", "0", "1", ":", " ", "4", "F", " ", "7", "A", "\n">>,
      <<"4", "0", "0", ":", " ", "4", "F", " ", "7", "A", "\n">>,
      <<"1", "2", "G", ":", " ", "4", "F", " ", "7", "A", "\n">>,
      <<"1", "2", "3", ":", " ", "G", "1", " ", "7", "A", "\n">>,
      <<"1", "2", "3", ":", " ", "-", "1", " ", "7", "A", "\n">>,
      <<"1", "2", "3", ":", "\n">>,
      <<"1", "2", "3", ":", " ", "4", "F", "\n">>,
      <<"1", "2", "3", ":", " ", "4", "F", " ", "\n">>,
      <<"1", "2", "3", ":", " ", "4", "F", " ", "7", "G", "\n">> }

\* Files of at most MaxLines lines of LineSet.
SmallFiles == UNION { [1..n -> LineSet] : n \in 0..MaxLines }

\* The one-line listings of every address of the buffer, with and without
\* a second byte.
WideFiles ==
    { <<PairLine(a)>> : a \in 0..(BufSize - 1) }
        \cup { <<SingleLine(a)>> : a \in 0..(BufSize - 1) }

\* What f.readlines() can return.
Files == SmallFiles \cup WideFiles

----------------------------------------------------------------------------
(* The run.                                                                *)

\* bytearray(1024)
ZeroBuffer == [k \in 0..(BufSize - 1) |-> 0]

Init ==
    /\ cicdis \in Files
    /\ output = ZeroBuffer
    /\ pc = "loop"
    /\ lineno = 0
    /\ fault = NoFault
    /\ cicbytes = <<>>
    /\ ra = 0
    /\ remapped = <<>>

\* Variant of DecodeLine that writes the file after every line.
DecodeLineFlush ==
    /\ pc = "loop"
    /\ lineno < Len(cicdis)
    /\ LET r == LoopBody(cicdis[lineno + 1], output)
       IN  /\ output' = r.output
           /\ fault' = [exc |-> r.exc, at |-> r.at]
           /\ lineno' = IF r.exc = "none" THEN lineno + 1 ELSE lineno
           /\ pc' = IF r.exc = "none" THEN "loop" ELSE "aborted"
           /\ cicbytes' = Append(cicbytes, r.output)
    /\ UNCHANGED <<cicdis, ra, remapped>>

\* One iteration of "for line in cicdis": an exception ends the run.
DecodeLine ==
    /\ pc = "loop"
    /\ lineno < Len(cicdis)
    /\ LET r == LoopBody(cicdis[lineno + 1], output)
       IN  /\ output' = r.output
           /\ fault' = [exc |-> r.exc, at |-> r.at]
           /\ lineno' = IF r.exc = "none" THEN lineno + 1 ELSE lineno
           /\ pc' = IF r.exc = "none" THEN "loop" ELSE "aborted"
    /\ UNCHANGED <<cicdis, cicbytes, ra, remapped>>

\* After the last line: open cicbytes.bin and f.write(output).
WriteFile ==
    /\ pc = "loop"
    /\ lineno = Len(cicdis)
    /\ cicbytes' = Append(cicbytes, output)
    /\ pc' = "done"
    /\ UNCHANGED <<cicdis, output, lineno, fault, ra, remapped>>

Next == DecodeLine \/ WriteFile

Spec == Init /\ [][Next]_vars

----------------------------------------------------------------------------
(* The remap rule on its own: applied to every address of the buffer in    *)
(* turn, the results kept in remapped (remapped[a + 1] for the address a). *)

RemapInit ==
    /\ ra = 0
    /\ remapped = <<>>
    /\ cicdis = <<>>
    /\ output = ZeroBuffer
    /\ pc = "remap"
    /\ lineno = 0
    /\ fault = NoFault
    /\ cicbytes = <<>>

RemapStep ==
    /\ pc = "remap"
    /\ ra < BufSize
    /\ remapped' = Append(remapped, Remap(ra))
    /\ ra' = ra + 1
    /\ UNCHANGED <<cicdis, output, pc, lineno, fault, cicbytes>>

RemapNext == RemapStep

RemapSpec == RemapInit /\ [][RemapNext]_vars

----------------------------------------------------------------------------
(* The properties.  They read a line by its columns and state the remap    *)
(* rule by arithmetic, not through the decoder's own operators.            *)

\* The line decoded last, and the line being decoded.
LastLine == cicdis[lineno]
ThisLine == cicdis[lineno + 1]

\* A line "valid" in the listing's sense: longer than 3, ':' at index 3.
ValidLine(l) == Utf8Ok(l) /\ Len(l) > 3 /\ l[4] = ":"

\* The fields of a line by their columns.
AddrOf(l) == IntBase16(Slice(l, 0, 3))
DataOf(l) == IntBase16(Slice(l, 5, 7))
Data2Of(l) == IntBase16(Slice(l, 8, 10))

\* The character at index 8 exists and is not a space / is a space.
NonSpaceAt8(l) == Len(l) >= 9 /\ l[9] # " "
SpaceAt8(l) == Len(l) >= 9 /\ l[9] = " "

\* The remap rule, by arithmetic on an address of 0..4095.
RemapRule(a) ==
    (a \div 128) * 128 + ((a % 128) \div 2)
        + (IF a % 4 = 0 \/ a % 4 = 3 THEN 64 ELSE 0)

\* The buffer index an address denotes (a negative one counts from the end).
IndexOf(a) == IF a < 0 THEN a + BufSize ELSE a

\* C1 as stated: after a valid line with a non-space at index 8, address A
\* in [0,1023], data D and data2 D2 is decoded, output[A] = D and
\* output[remap(A)] = D2.
C1_BothWritesVisible ==
    (lineno >= 1 /\ fault = NoFault /\ ValidLine(LastLine)
        /\ NonSpaceAt8(LastLine) /\ AddrOf(LastLine).ok
        /\ AddrOf(LastLine).val \in 0..(BufSize - 1))
    => /\ output[AddrOf(LastLine).val] = DataOf(LastLine).val
       /\ output[RemapRule(AddrOf(LastLine).val)] = Data2Of(LastLine).val

\* C1 (amended): after such a line output[remap(A)] = D2, and output[A] = D
\* unless remap(A) = A, which is the case exactly when A & 0x7F = 0x7F; then
\* the secondary write has overwritten the primary one.
C1_SecondWriteWins ==
    (lineno >= 1 /\ fault = NoFault /\ ValidLine(LastLine)
        /\ NonSpaceAt8(LastLine) /\ AddrOf(LastLine).ok
        /\ AddrOf(LastLine).val \in 0..(BufSize - 1))
    => LET A == AddrOf(LastLine).val
       IN  /\ output[RemapRule(A)] = Data2Of(LastLine).val
           /\ RemapRule(A) # A => output[A] = DataOf(LastLine).val
           /\ RemapRule(A) = A <=> A % 128 = 127

\* The line "123: 4F 7A" has been decoded: 0x4F at 0x123, 0x7A at 0x151.
C1_Witness ==
    /\ lineno >= 1 /\ fault = NoFault
    /\ LastLine = <<"1", "2", "3", ":", " ", "4", "F", " ", "7", "A", "\n">>
    /\ output[291] = 79
    /\ output[337] = 122

\* C2: decoding a line of length <= 3, or with another character than ':'
\* at index 3, changes no entry of the buffer and raises nothing; the loop
\* goes on to the next line.
C2_SkippedLineIsNoOp ==
    [][ (pc = "loop" /\ lineno < Len(cicdis) /\ Utf8Ok(ThisLine)
            /\ (Len(ThisLine) <= 3 \/ ThisLine[4] # ":"))
        => (/\ output' = output
            /\ fault' = NoFault
            /\ pc' = "loop"
            /\ lineno' = lineno + 1) ]_vars

\* A line with ' ' at index 3 and data-like text was skipped after a data
\* line had written to the buffer.
C2_Witness ==
    /\ lineno = 2 /\ pc = "loop" /\ fault = NoFault
    /\ cicdis[2] = <<"1", "2", "3", " ", "4", "F", " ", "7", "A", "\n">>
    /\ output[337] = 17

\* C3: a valid line with a space at index 8, address A in [0,1023] and data
\* byte D makes exactly one write: output[A] = D, every other entry keeps
\* its value, and nothing is raised.
C3_SinglePairWritesOnce ==
    [][ (pc = "loop" /\ lineno < Len(cicdis) /\ ValidLine(ThisLine)
            /\ SpaceAt8(ThisLine)
            /\ AddrOf(ThisLine).ok /\ AddrOf(ThisLine).val \in 0..(BufSize - 1)
            /\ DataOf(ThisLine).ok /\ DataOf(ThisLine).val \in 0..255)
        => (/\ fault' = NoFault
            /\ DOMAIN output' = DOMAIN output
            /\ output'[AddrOf(ThisLine).val] = DataOf(ThisLine).val
            /\ \A k \in DOMAIN output \ {AddrOf(ThisLine).val} :
                  output'[k] = output[k]) ]_vars

\* "151: 4F  " was decoded after "123: 4F 7A": 0x151 holds the new byte,
\* 0x123 still the byte of the first line.
C3_Witness ==
    /\ lineno = 2 /\ fault = NoFault
    /\ cicdis[1] = <<"1", "2", "3", ":", " ", "4", "F", " ", "7", "A", "\n">>
    /\ cicdis[2] = <<"1", "5", "1", ":", " ", "4", "F", " ", " ", "\n">>
    /\ output[337] = 79
    /\ output[291] = 79

\* A field of exactly n hexadecimal digits.
HexField(s, n) ==
    Len(s) = n /\ \A k \in 1..Len(s) : HexDigitValue(s[k]) >= 0

\* C4: every line with ':' at index 3 whose parsed fields are hexadecimal
\* digits and whose addresses are in [0,1023] is decoded without a fault,
\* a line that ends before index 8 included.
C4_OnlyStatedFaults ==
    (pc = "aborted" /\ ValidLine(ThisLine))
    => \/ ~HexField(Slice(ThisLine, 0, 3), 3)
       \/ ~HexField(Slice(ThisLine, 5, 7), 2)
       \/ NonSpaceAt8(ThisLine) /\ ~HexField(Slice(ThisLine, 8, 10), 2)
       \/ AddrOf(ThisLine).val \notin 0..(BufSize - 1)

\* C5: the output file is written at most once, only after the last line
\* and only in a run without a fault; a run that faults stops and never
\* writes; a run without a fault goes on until the one write is made.
C5_WriteOnceAtEnd ==
    /\ Len(cicbytes) <= 1
    /\ fault # NoFault => (pc = "aborted" /\ cicbytes = <<>> /\ ~ENABLED Next)
    /\ cicbytes # <<>> =>
          (pc = "done" /\ fault = NoFault /\ lineno = Len(cicdis)
              /\ cicbytes[1] = output)
    /\ pc = "done" => Len(cicbytes) = 1
    /\ pc = "loop" => (lineno < Len(cicdis) \/ ENABLED WriteFile)

\* The second of two lines faulted after the first had written to the
\* buffer: no file.
C5_Witness ==
    /\ pc = "aborted" /\ lineno = 1 /\ Len(cicdis) = 2
    /\ output # ZeroBuffer
    /\ cicbytes = <<>>

\* The writes a line asks for, <<index, byte>>, primary before secondary.
LineWrites(l) ==
    IF ~ValidLine(l) THEN <<>>
    ELSE <<  <<IndexOf(AddrOf(l).val), DataOf(l).val>>  >>
           \o (IF NonSpaceAt8(l)
               THEN <<  <<RemapRule(AddrOf(l).val), Data2Of(l).val>>  >>
               ELSE <<>>)

\* The writes of the first n lines of the file, in file order.
RECURSIVE FileWrites(_)
FileWrites(n) ==
    IF n = 0 THEN <<>> ELSE FileWrites(n - 1) \o LineWrites(cicdis[n])

\* The positions in ws of the writes to index k.
WritesTo(ws, k) == {j \in 1..Len(ws) : ws[j][1] = k}

SetMax(S) == CHOOSE x \in S : \A y \in S : y <= x

\* C6: in a run that completes, every entry of the written buffer is the
\* byte of the last write to that index, the writes taken in file order
\* and primary before secondary within a line (0 where there is none).
C6_LastWriteWins ==
    pc = "done" =>
        LET ws == FileWrites(Len(cicdis))
        IN  \A k \in 0..(BufSize - 1) :
                cicbytes[1][k] =
                    IF WritesTo(ws, k) = {} THEN 0
                    ELSE ws[SetMax(WritesTo(ws, k))][2]

\* "151: 11 22" after "123: 4F 7A": the later primary write to 0x151 has
\* replaced the earlier secondary one.
C6_Witness ==
    /\ pc = "done"
    /\ cicdis = << <<"1", "2", "3", ":", " ", "4", "F", " ", "7", "A", "\n">>,
                   <<"1", "5", "1", ":", " ", "1", "1", " ", "2", "2", "\n">> >>
    /\ cicbytes[1][337] = 17
    /\ cicbytes[1][291] = 79
    /\ cicbytes[1][296] = 34

\* C7: the buffer always has its 1024 entries, each a byte; in the written
\* file an index no pair of a line targets holds 0 and any other index
\* holds the byte of a pair of some line that targets it.
C7_BufferShapeAndOrigin ==
    /\ DOMAIN output = 0..(BufSize - 1)
    /\ \A k \in DOMAIN output : output[k] \in 0..255
    /\ pc = "done" =>
          LET ws == FileWrites(Len(cicdis))
          IN  /\ DOMAIN cicbytes[1] = 0..(BufSize - 1)
              /\ \A k \in 0..(BufSize - 1) :
                    IF WritesTo(ws, k) = {} THEN cicbytes[1][k] = 0
                    ELSE \E j \in WritesTo(ws, k) : cicbytes[1][k] = ws[j][2]

\* A file of two data lines was written: touched entries hold their bytes,
\* an untouched one holds 0.
C7_Witness ==
    /\ pc = "done" /\ Len(cicdis) = 2
    /\ cicbytes[1][127] = 122
    /\ cicbytes[1][1023] = 79
    /\ cicbytes[1][0] = 0

\* C8: the remapped address of A in [0,1023] lies in the 128-byte block of
\* A, in its upper half when the low two bits of A are 00 or 11 and in its
\* lower half when they are 01 or 10.
C8_RemapStaysInBlock ==
    \A a \in 0..(Len(remapped) - 1) :
        LET r == remapped[a + 1]
        IN  /\ r \in 0..(BufSize - 1)
            /\ r \div 128 = a \div 128
            /\ a % 4 \in {0, 3} => r % 128 \in 64..127
            /\ a % 4 \in {1, 2} => r % 128 \in 0..63

\* The rule has been applied to every address: 0x123 went to 0x151 (upper
\* half), 0x082 to 0x081 (lower half).
C8_Witness ==
    /\ ra = BufSize
    /\ remapped[291 + 1] = 337
    /\ remapped[130 + 1] = 129

\* C10: on [0,1023] the remap rule is injective, and it maps every
\* 128-byte block onto itself.
C10_RemapInjective ==
    ra = BufSize =>
        /\ \A a \in 1..BufSize : \A b \in (a + 1)..BufSize :
              remapped[a] # remapped[b]
        /\ \A blk \in 0..((BufSize \div 128) - 1) :
              {remapped[a + 1] : a \in (blk * 128)..(blk * 128 + 127)}
                  = (blk * 128)..(blk * 128 + 127)

\* The rule has been applied to every address; 0 and 3, the two addresses
\* of one group that go to the upper half, went to neighbours.
C10_Witness ==
    /\ ra = BufSize
    /\ remapped[0 + 1] = 64
    /\ remapped[3 + 1] = 65
    /\ remapped[127 + 1] = 127

\* C9: when a valid line aborts, the buffer is as it was before the line if
\* the address or the primary data did not parse or the primary write was
\* refused, and holds exactly the primary write of the line on top of that
\* if the fault came later (index 8, the second data, the second write);
\* no file is written.
C9_AbortLeavesPrefix ==
    [][ (pc = "loop" /\ pc' = "aborted" /\ ValidLine(ThisLine))
        => LET A == AddrOf(ThisLine)
               D == DataOf(ThisLine)
               early == \/ ~A.ok \/ ~D.ok
                        \/ D.val \notin 0..255
                        \/ IndexOf(A.val) \notin 0..(BufSize - 1)
           IN  /\ early <=> fault'.at \in {"address", "data", "store"}
               /\ ~early <=> fault'.at \in {"index8", "data2", "store2"}
               /\ early => output' = output
               /\ ~early => output' = [output EXCEPT ![IndexOf(A.val)] = D.val]
               /\ fault'.at = "index8" <=> (~early /\ Len(ThisLine) < 9)
               /\ cicbytes' = <<>> /\ cicbytes = <<>> ]_vars

\* "123: 4F 7G" aborted at its second data after "151: 11 22" had been
\* decoded: the primary write of the failing line and the writes of the
\* earlier line are in the buffer, and there is no file.
C9_Witness ==
    /\ pc = "aborted" /\ lineno = 1
    /\ fault = [exc |-> "ValueError", at |-> "data2"]
    /\ output[291] = 79
    /\ output[337] = 17
    /\ output[296] = 34
    /\ cicbytes = <<>>

====
